---- MODULE Spec2Model ----
(***************************************************************************)
(* Model of src/hextoc.py: the two formatters binary_to_c_array and        *)
(* binary_to_c_array_multiline, and one run of main() with its file reader *)
(* and output writer.  Text is a sequence of one-character strings, so     *)
(* that formatting and re-parsing are computed character by character.     *)
(***************************************************************************)
EXTENDS Integers, Sequences, FiniteSets, TLC

\* ---------------------------------------------------------------- bounds
MaxLen == 3
MaxWidth == 4

\* ------------------------------------------------------- input domains
ByteSamples == {0, 10, 127, 255}
NameSamples == { <<"b","u","f">>, <<"d","0","x","4","1">> }
Widths == (0 - 2) .. MaxWidth
OldContent == <<"o","l","d">>

RECURSIVE SeqsUpTo(_, _)
SeqsUpTo(S, n) ==
  IF n = 0 THEN { <<>> }
  ELSE LET shorter == SeqsUpTo(S, n - 1)
       IN shorter \cup { Append(s, x) : s \in { t \in shorter : Len(t) = n - 1 }, x \in S }

\* ------------------------------------------------------ text primitives
HexChars == <<"0","1","2","3","4","5","6","7","8","9","A","B","C","D","E","F">>
DecChars == <<"0","1","2","3","4","5","6","7","8","9">>

Min(a, b) == IF a < b THEN a ELSE b
Max(a, b) == IF a > b THEN a ELSE b

\* f"{byte:02X}"
Hex02XSwapped(byte) == << HexChars[(byte % 16) + 1], HexChars[(byte \div 16) + 1] >>
Hex02X(byte) == << HexChars[(byte \div 16) + 1], HexChars[(byte % 16) + 1] >>

\* f"{n}" for n >= 0
RECURSIVE Decimal(_)
Decimal(n) ==
  IF n < 10 THEN << DecChars[n + 1] >>
  ELSE Decimal(n \div 10) \o << DecChars[(n % 10) + 1] >>

\* sep.join(parts)
RECURSIVE Join(_, _)
Join(sep, parts) ==
  IF Len(parts) = 0 THEN <<>>
  ELSE IF Len(parts) = 1 THEN parts[1]
  ELSE parts[1] \o sep \o Join(sep, Tail(parts))

\* range(start, stop, step) for step # 0 (step = 0 raises ValueError)
RECURSIVE RangeAbs(_, _, _)
RangeAbs(start, stop, step) ==
  LET s == IF step < 0 THEN 0 - step ELSE step
  IN IF start < stop THEN <<start>> \o RangeAbs(start + s, stop, s) ELSE <<>>
RECURSIVE Range(_, _, _)
Range(start, stop, step) ==
  IF step > 0 /\ start < stop THEN <<start>> \o Range(start + step, stop, step)
  ELSE IF step < 0 /\ start > stop THEN <<start>> \o Range(start + step, stop, step)
  ELSE <<>>

\* s[i:j] for 0 <= i (0-based, end exclusive, clamped to the length)
SliceShort(s, i, j) == IF j > Len(s) THEN <<>> ELSE SubSeq(s, i + 1, j)
Slice(s, i, j) == SubSeq(s, Min(i, Len(s)) + 1, Min(Max(j, i), Len(s)))

\* f"/* Length: {len(data)} bytes */"
LengthComment(n) ==
  <<"/","*"," ","L","e","n","g","t","h",":"," ">> \o Decimal(n)
    \o <<" ","b","y","t","e","s"," ","*","/">>

UnsignedChar == <<"u","n","s","i","g","n","e","d"," ","c","h","a","r"," ">>
Indent == <<" "," "," "," ">>
NL == <<"\n">>

\* ------------------------------------------------- binary_to_c_array
\* f"\\x{byte:02X}"
EscTokenNoPad(byte) ==
  IF byte < 16 THEN <<"\\","x", HexChars[byte + 1]>> ELSE <<"\\","x">> \o Hex02X(byte)
EscToken(byte) == <<"\\","x">> \o Hex02X(byte)

\* return f"unsigned char {array_name}[] = \"\";"
EmptyEscapedWithComment(array_name) ==
  UnsignedChar \o array_name \o <<"[","]"," ","="," ","\"","\"",";">>
    \o NL \o LengthComment(0)
EmptyEscaped(array_name) ==
  UnsignedChar \o array_name \o <<"[","]"," ","="," ","\"","\"",";">>

\* line = f"    \"{line_content}\""
EscapedLine(line_values) == Indent \o <<"\"">> \o Join(<<>>, line_values) \o <<"\"">>

\* output = [header] followed by one line per chunk
EscapedLinesMerged(array_name, hex_values, bytes_per_line) ==
  LET starts == Range(0, Len(hex_values), bytes_per_line)
      lines  == [ k \in 1..Len(starts) |->
                   EscapedLine(Slice(hex_values, starts[k], starts[k] + bytes_per_line)) ]
      header == UnsignedChar \o array_name \o <<"[","]"," ","=">>
  IN IF Len(lines) = 0 THEN << header >>
     ELSE << header \o lines[1] >> \o Tail(lines)
EscapedLines(array_name, hex_values, bytes_per_line) ==
  LET starts == Range(0, Len(hex_values), bytes_per_line)
  IN << UnsignedChar \o array_name \o <<"[","]"," ","=">> >>
     \o [ k \in 1..Len(starts) |->
           EscapedLine(Slice(hex_values, starts[k], starts[k] + bytes_per_line)) ]

binary_to_c_array(data, array_name, bytes_per_line) ==
  IF Len(data) = 0 THEN EmptyEscaped(array_name)
  ELSE LET hex_values == [ k \in 1..Len(data) |-> EscToken(data[k]) ]
           output == EscapedLines(array_name, hex_values, bytes_per_line)
           n      == Len(output)
           closed == [ output EXCEPT ![n] = @ \o <<";">> ]
       IN Join(NL, Append(closed, LengthComment(Len(data))))

\* --------------------------------------- binary_to_c_array_multiline
\* return f"unsigned char {array_name}[] = {{}};"  -- taken for empty data
EmptyHexWithComment(array_name) ==
  UnsignedChar \o array_name \o <<"[","]"," ","="," ","{","}",";">>
    \o NL \o LengthComment(0)
EmptyHex(array_name) ==
  UnsignedChar \o array_name \o <<"[","]"," ","="," ","{","}",";">>

\* if i + bytes_per_line < len(data): line += ","
TrailingCommaAlways(i, bytes_per_line, n) == i + bytes_per_line <= n
TrailingComma(i, bytes_per_line, n) == i + bytes_per_line < n

HexLine(data, i, bytes_per_line) ==
  LET line_data  == Slice(data, i, i + bytes_per_line)
      hex_values == [ k \in 1..Len(line_data) |-> <<"0","x">> \o Hex02X(line_data[k]) ]
      line       == Indent \o Join(<<",", " ">>, hex_values)
  IN IF TrailingComma(i, bytes_per_line, Len(data)) THEN line \o <<",">> ELSE line

binary_to_c_array_multiline(data, array_name, bytes_per_line) ==
  IF Len(data) = 0 THEN EmptyHex(array_name)
  ELSE LET starts == Range(0, Len(data), bytes_per_line)
           output == << UnsignedChar \o array_name \o <<"[","]"," ","="," ","{">> >>
                     \o [ k \in 1..Len(starts) |-> HexLine(data, starts[k], bytes_per_line) ]
                     \o << <<"}",";">>, LengthComment(Len(data)) >>
       IN Join(NL, output)

\* ----------------------------------------------- read_binary_file
\* outcome of open(file_path, 'rb') / f.read(): the bytes, or the message
\* printed before sys.exit(1)
ReadOutcomes == {"ok", "FileNotFoundError", "PermissionError", "Exception"}

read_binary_file(content, outcome) ==
  IF outcome = "ok" THEN [ok |-> TRUE, data |-> content, msg |-> "none"]
  ELSE IF outcome = "FileNotFoundError"
       THEN [ok |-> FALSE, data |-> <<>>, msg |-> "err_not_found"]
  ELSE IF outcome = "PermissionError"
       THEN [ok |-> FALSE, data |-> <<>>, msg |-> "err_permission"]
  ELSE [ok |-> FALSE, data |-> <<>>, msg |-> "err_read"]

\* --------------------------------------------------- write_output
\* open(output_file, 'w') creates or truncates the destination; f.write
\* and the close at the end of the with-block put the content there.  A
\* failure of open leaves the destination alone; a failure after open
\* leaves the first k characters of the content.
WriteOutcomes == {"ok", "open_fails", "write_fails"}

PartialLengths(content) == {0, Len(content) \div 2, Len(content) - 1}

write_output_atomic(content, destination, outcome, k) ==
  IF outcome = "ok"
  THEN [ok |-> TRUE, dest |-> [exists |-> TRUE, content |-> content]]
  ELSE [ok |-> FALSE, dest |-> destination]
write_output(content, destination, outcome, k) ==
  IF outcome = "ok"
  THEN [ok |-> TRUE, dest |-> [exists |-> TRUE, content |-> content]]
  ELSE IF outcome = "open_fails"
  THEN [ok |-> FALSE, dest |-> destination]
  ELSE [ok |-> FALSE, dest |-> [exists |-> TRUE, content |-> SubSeq(content, 1, k)]]

\* --------------------------------------------------------- main
VARIABLES
  pc,          \* position in main(): check, read, format, output, done
  fileData,    \* the bytes of the input file
  name,        \* args.name
  width,       \* args.width
  hex_format,  \* args.hex_format
  preview,     \* args.preview
  data,        \* bytes returned by read_binary_file
  c_array,     \* the formatted text (<<>> until a formatter has returned)
  stdout,      \* the lines printed so far
  dest,        \* the destination file args.output
  exitcode     \* -1 while running, then the exit status

vars == <<pc, fileData, name, width, hex_format, preview, data, c_array,
          stdout, dest, exitcode>>

args == <<fileData, name, width, hex_format, preview>>

Line(tag, arg) == [tag |-> tag, arg |-> arg]

NoFile == [exists |-> FALSE, content |-> <<>>]
OldFile == [exists |-> TRUE, content |-> OldContent]

Init ==
  /\ pc = "check"
  /\ fileData \in SeqsUpTo(ByteSamples, MaxLen)
  /\ name \in NameSamples
  /\ width \in Widths
  /\ hex_format \in BOOLEAN
  /\ preview \in BOOLEAN
  /\ data = <<>>
  /\ c_array = <<>>
  /\ stdout = <<>>
  /\ dest \in {NoFile, OldFile}
  /\ exitcode = 0 - 1

\* if not os.path.isfile(args.file): print(...); sys.exit(1)
MainCheckFile ==
  /\ pc = "check"
  /\ \E isfile \in BOOLEAN :
       IF isfile
       THEN /\ pc' = "read"
            /\ UNCHANGED <<stdout, exitcode>>
       ELSE /\ pc' = "done"
            /\ stdout' = Append(stdout, Line("err_not_a_file", <<>>))
            /\ exitcode' = 1
  /\ UNCHANGED <<args, data, c_array, dest>>

\* print(reading); data = read_binary_file(args.file); print(file size)
MainRead ==
  /\ pc = "read"
  /\ \E outcome \in ReadOutcomes :
       LET r == read_binary_file(fileData, outcome)
       IN IF r.ok
          THEN /\ data' = r.data
               /\ stdout' = stdout \o << Line("reading", <<>>),
                                         Line("size", Decimal(Len(r.data))) >>
               /\ pc' = "format"
               /\ UNCHANGED exitcode
          ELSE /\ stdout' = stdout \o << Line("reading", <<>>), Line(r.msg, <<>>) >>
               /\ pc' = "done"
               /\ exitcode' = 1
               /\ UNCHANGED data
  /\ UNCHANGED <<args, c_array, dest>>

\* c_array = formatter(data, args.name, args.width); range() raises an
\* uncaught ValueError for a zero step, which ends the run with status 1
MainFormat ==
  /\ pc = "format"
  /\ IF width = 0 /\ Len(data) # 0
     THEN /\ pc' = "done"
          /\ exitcode' = 1
          /\ UNCHANGED c_array
     ELSE /\ c_array' = IF hex_format
                        THEN binary_to_c_array_multiline(data, name, width)
                        ELSE binary_to_c_array(data, name, width)
          /\ pc' = "output"
          /\ UNCHANGED exitcode
  /\ UNCHANGED <<args, data, stdout, dest>>

\* if args.preview: print header, rule and c_array
MainPreview ==
  /\ pc = "output"
  /\ preview
  /\ stdout' = stdout \o << Line("preview", <<>>), Line("rule", <<>>),
                            Line("c_array", c_array) >>
  /\ pc' = "done"
  /\ exitcode' = 0
  /\ UNCHANGED <<args, data, c_array, dest>>

\* print(array name); print(array length) after write_output returned
SummaryLinesNoLength(array_name, file_size) == << Line("name", array_name) >>
SummaryLines(array_name, file_size) ==
  << Line("name", array_name), Line("length", Decimal(file_size)) >>

\* else: write_output(c_array, args.output); print name; print length
MainWrite ==
  /\ pc = "output"
  /\ ~preview
  /\ \E outcome \in WriteOutcomes, k \in PartialLengths(c_array) :
       LET w == write_output(c_array, dest, outcome, k)
       IN /\ dest' = w.dest
          /\ IF w.ok
             THEN /\ stdout' = stdout \o << Line("written", <<>>) >>
                                       \o SummaryLines(name, Len(data))
                  /\ exitcode' = 0
             ELSE /\ stdout' = Append(stdout, Line("err_write", <<>>))
                  /\ exitcode' = 1
  /\ pc' = "done"
  /\ UNCHANGED <<args, data, c_array>>

Next ==
  \/ MainCheckFile
  \/ MainRead
  \/ MainFormat
  \/ MainPreview
  \/ MainWrite

Spec == Init /\ [][Next]_vars

TypeOK ==
  /\ pc \in {"check", "read", "format", "output", "done"}
  /\ exitcode \in {0 - 1, 0, 1}
  /\ width \in Widths
  /\ (pc = "done") = (exitcode # 0 - 1)

\* ------------------------------------------------ reading the text back
HexDigits == { HexChars[k] : k \in 1..16 }
HexVal(c) == (CHOOSE k \in 1..16 : HexChars[k] = c) - 1
IdentChars ==
  { "a","b","c","d","e","f","g","h","i","j","k","l","m","n","o","p","q","r",
    "s","t","u","v","w","x","y","z","A","B","C","D","E","F","G","H","I","J",
    "K","L","M","N","O","P","Q","R","S","T","U","V","W","X","Y","Z","_",
    "0","1","2","3","4","5","6","7","8","9" }

\* the bytes of the 0xHH integer literals of a text, in order of appearance
\* (a literal starts at a token boundary, not inside an identifier)
RECURSIVE ScanHex(_, _)
ScanHex(text, i) ==
  IF i + 3 > Len(text) THEN <<>>
  ELSE IF /\ text[i] = "0" /\ text[i + 1] = "x"
          /\ text[i + 2] \in HexDigits /\ text[i + 3] \in HexDigits
          /\ (i = 1 \/ text[i - 1] \notin IdentChars)
       THEN << 16 * HexVal(text[i + 2]) + HexVal(text[i + 3]) >> \o ScanHex(text, i + 4)
       ELSE ScanHex(text, i + 1)
ParseHexTokens(text) == ScanHex(text, 1)

\* the bytes of the \xHH escapes of a text, in order of appearance
RECURSIVE ScanEsc(_, _)
ScanEsc(text, i) ==
  IF i + 3 > Len(text) THEN <<>>
  ELSE IF /\ text[i] = "\\" /\ text[i + 1] = "x"
          /\ text[i + 2] \in HexDigits /\ text[i + 3] \in HexDigits
       THEN << 16 * HexVal(text[i + 2]) + HexVal(text[i + 3]) >> \o ScanEsc(text, i + 4)
       ELSE ScanEsc(text, i + 1)
ParseEscTokens(text) == ScanEsc(text, 1)

\* text.split("\n")
RECURSIVE SplitLines(_)
SplitLines(text) ==
  IF \A j \in 1..Len(text) : text[j] # "\n" THEN << text >>
  ELSE LET k == CHOOSE j \in 1..Len(text) :
                  text[j] = "\n" /\ \A h \in 1..(j - 1) : text[h] # "\n"
       IN << SubSeq(text, 1, k - 1) >> \o SplitLines(SubSeq(text, k + 1, Len(text)))

\* the lines between the opening "{" line and the closing "};" line
ValueLines(text) ==
  LET lines == SplitLines(text)
      close == CHOOSE j \in 1..Len(lines) :
                 lines[j] = <<"}", ";">> /\ \A h \in 1..(j - 1) : lines[h] # <<"}", ";">>
  IN SubSeq(lines, 2, close - 1)

RECURSIVE SumSeq(_)
SumSeq(q) == IF Len(q) = 0 THEN 0 ELSE Head(q) + SumSeq(Tail(q))

CeilDiv(a, b) == (a + b - 1) \div b
Last(q) == q[Len(q)]
HasLine(tag, arg) == \E k \in 1..Len(stdout) : stdout[k] = Line(tag, arg)
Formatted == c_array # <<>>
Succeeded == pc = "done" /\ exitcode = 0
LengthCommentText(n) ==
  <<"/","*"," ","L","e","n","g","t","h",":"," ">> \o Decimal(n)
    \o <<" ","b","y","t","e","s"," ","*","/">>
EscHeaderText == UnsignedChar \o name \o <<"[","]"," ","=">>
HexHeaderText == UnsignedChar \o name \o <<"[","]"," ","="," ","{">>

\* ----------------------------------------------------------------- C1
\* C1 (as stated): for empty input and positive width the hex-array
\* formatter returns `unsigned char <name>[] = {};`, a newline and the
\* comment `/* Length: 0 bytes */`.
C1_HexEmptyHasComment ==
  (Formatted /\ hex_format /\ Len(data) = 0 /\ width > 0) =>
    c_array = UnsignedChar \o name \o <<"[","]"," ","="," ","{","}",";","\n">>
                \o LengthCommentText(0)

\* C1 (amended): for empty input and any name and width the hex-array
\* formatter returns exactly the single line `unsigned char <name>[] = {};`
\* with no length comment; for non-empty input the last line of its
\* output is the comment `/* Length: <N> bytes */`.
C1_HexEmptyNoComment ==
  (Formatted /\ hex_format) =>
    IF Len(data) = 0
    THEN /\ c_array = UnsignedChar \o name \o <<"[","]"," ","="," ","{","}",";">>
         /\ Len(SplitLines(c_array)) = 1
    ELSE Last(SplitLines(c_array)) = LengthCommentText(Len(data))

C1_Witness ==
  Formatted /\ hex_format /\ Len(data) = 0 /\ width > 0 /\ pc = "done"

\* ----------------------------------------------------------------- C2
\* C2: a run that ends with a failure never leaves a truncated or
\* incomplete version of the formatted text in the destination file.
C2_NoPartialOutputOnFailure ==
  (pc = "done" /\ exitcode # 0) =>
    ~(dest.exists /\ dest.content # OldContent /\ dest.content # c_array)

\* ----------------------------------------------------------------- C3
\* C3 (as stated): every run that ends with status 0, written or previewed,
\* has printed the file size, the array name and the byte count.
C3_SummaryOnEverySuccess ==
  Succeeded =>
    /\ HasLine("size", Decimal(Len(data)))
    /\ HasLine("name", name)
    /\ HasLine("length", Decimal(Len(data)))

\* C3 (amended): every run that ends with status 0 has printed the file
\* size; a run that wrote the destination has also printed the array name
\* and the byte count, as its last two lines; a preview run prints neither
\* of these two lines.
C3_SummaryOnWrite ==
  Succeeded =>
    /\ HasLine("size", Decimal(Len(data)))
    /\ ~preview =>
         /\ Len(stdout) >= 2
         /\ stdout[Len(stdout) - 1] = Line("name", name)
         /\ stdout[Len(stdout)] = Line("length", Decimal(Len(data)))
    /\ preview =>
         \A k \in 1..Len(stdout) : stdout[k].tag \notin {"name", "length"}

C3_Witness ==
  /\ Succeeded /\ ~preview /\ Len(data) > 0
  /\ dest.content = c_array /\ HasLine("written", <<>>)

\* ----------------------------------------------------------------- C4
\* C4: for every byte sequence and positive width, the 0xHH tokens of the
\* hex-array output, decoded in order, are exactly the input bytes.
C4_HexRoundTrip ==
  (Formatted /\ hex_format /\ width > 0) => ParseHexTokens(c_array) = data

C4_Witness ==
  /\ Formatted /\ hex_format /\ width = 2 /\ Len(data) = 3
  /\ data[1] # data[2] /\ data[2] # data[3]
  /\ ParseHexTokens(c_array) = data

\* ----------------------------------------------------------------- C5
\* C5: for every byte sequence and positive width, the \xHH tokens of the
\* escaped-string output, decoded in order, are exactly the input bytes.
C5_EscapedRoundTrip ==
  (Formatted /\ ~hex_format /\ width > 0) => ParseEscTokens(c_array) = data

C5_Witness ==
  /\ Formatted /\ ~hex_format /\ width = 2 /\ Len(data) = 3
  /\ data[1] # data[2] /\ data[2] # data[3]
  /\ ParseEscTokens(c_array) = data

\* ----------------------------------------------------------------- C6
\* C6: for empty input and any name and width, the escaped-string
\* formatter returns exactly the single line `unsigned char <name>[] = "";`
\* with no comment line and no other line.
C6_EscapedEmpty ==
  (Formatted /\ ~hex_format /\ Len(data) = 0) =>
    /\ c_array = UnsignedChar \o name \o <<"[","]"," ","="," ","\"","\"",";">>
    /\ Len(SplitLines(c_array)) = 1

C6_Witness ==
  Formatted /\ ~hex_format /\ Len(data) = 0 /\ width <= 0 /\ pc = "done"

\* ----------------------------------------------------------------- C7
\* C7: for non-empty input and positive width W the hex-array output has
\* exactly ceil(N/W) value lines between the `{` line and the `};` line,
\* each but the last with W byte tokens, the last with 1..W, N tokens in
\* all; W >= N gives one value line and W < N more than one.
C7_HexValueLines ==
  (Formatted /\ hex_format /\ Len(data) > 0 /\ width > 0) =>
    LET lines  == SplitLines(c_array)
        values == ValueLines(c_array)
        counts == [ k \in 1..Len(values) |-> Len(ParseHexTokens(values[k])) ]
        n      == Len(values)
    IN /\ lines[1] = HexHeaderText
       /\ lines[n + 2] = <<"}", ";">>
       /\ Len(lines) = n + 3
       /\ n = CeilDiv(Len(data), width)
       /\ \A k \in 1..(n - 1) : counts[k] = width
       /\ counts[n] >= 1 /\ counts[n] <= width
       /\ SumSeq(counts) = Len(data)
       /\ (width >= Len(data)) => n = 1
       /\ (width < Len(data)) => n > 1

C7_Witness ==
  /\ Formatted /\ hex_format /\ Len(data) = 3 /\ width = 2
  /\ Len(ValueLines(c_array)) = 2
  /\ Len(ParseHexTokens(ValueLines(c_array)[2])) = 1

\* ----------------------------------------------------------------- C8
\* C8 (as stated): for non-empty input and positive width, the first line
\* of the escaped-string output holds the header `unsigned char <name>[] =`
\* and the first chunk of bytes.
C8_FirstLineHoldsFirstChunk ==
  (Formatted /\ ~hex_format /\ Len(data) > 0 /\ width > 0) =>
    LET first == SplitLines(c_array)[1]
    IN /\ Len(first) >= Len(EscHeaderText)
       /\ SubSeq(first, 1, Len(EscHeaderText)) = EscHeaderText
       /\ ParseEscTokens(first) = SubSeq(data, 1, Min(width, Len(data)))

\* C8 (amended): for non-empty input and positive width, the first line of
\* the escaped-string output is exactly the header `unsigned char <name>[] =`
\* and holds no byte token; the first chunk of bytes (the first min(W, N)
\* tokens) is the string literal on the second line.
C8_FirstChunkOnSecondLine ==
  (Formatted /\ ~hex_format /\ Len(data) > 0 /\ width > 0) =>
    LET lines == SplitLines(c_array)
    IN /\ lines[1] = EscHeaderText
       /\ ParseEscTokens(lines[1]) = <<>>
       /\ Len(lines) >= 3
       /\ SubSeq(lines[2], 1, 5) = <<" "," "," "," ","\"">>
       /\ ParseEscTokens(lines[2]) = SubSeq(data, 1, Min(width, Len(data)))

C8_Witness ==
  /\ Formatted /\ ~hex_format /\ Len(data) = 3 /\ width = 2
  /\ Len(SplitLines(c_array)) = 4
  /\ ParseEscTokens(SplitLines(c_array)[2]) = SubSeq(data, 1, 2)

\* ----------------------------------------------------------------- C9
\* C9: for non-empty input and positive width, every value line of the
\* hex-array output except the last ends with a comma and the last one
\* does not, also when N is a multiple of W and when there is one line.
C9_HexTrailingCommas ==
  (Formatted /\ hex_format /\ Len(data) > 0 /\ width > 0) =>
    LET values == ValueLines(c_array)
        n      == Len(values)
    IN /\ n >= 1
       /\ \A k \in 1..(n - 1) : Last(values[k]) = ","
       /\ Last(values[n]) # ","

C9_Witness ==
  /\ Formatted /\ hex_format /\ Len(data) = 2 /\ width = 1
  /\ Len(ValueLines(c_array)) = 2
  /\ Last(ValueLines(c_array)[1]) = ","

\* ---------------------------------------------------------------- C10
\* C10: a negative width is accepted by main and by both formatters; for
\* non-empty input the formatter returns a text with no byte token whose
\* comment still reports N bytes: escaped style `unsigned char <name>[] =;`
\* and the comment, hex style the `{` line, the `};` line and the comment.
C10_NegativeWidth ==
  (width < 0 /\ Len(data) > 0 /\ pc \in {"output", "done"}) =>
    /\ Formatted
    /\ ParseHexTokens(c_array) = <<>>
    /\ ParseEscTokens(c_array) = <<>>
    /\ SplitLines(c_array) =
         IF hex_format
         THEN << HexHeaderText, <<"}", ";">>, LengthCommentText(Len(data)) >>
         ELSE << EscHeaderText \o <<";">>, LengthCommentText(Len(data)) >>

C10_Witness ==
  /\ width < 0 /\ Len(data) = 2 /\ Succeeded /\ ~hex_format
  /\ Len(SplitLines(c_array)) = 2
====
